---- MODULE Spec2Model ----
(***************************************************************************)
(* Model of django/utils/functional.py: lazy(), the __proxy__ class built  *)
(* in its closure, and allow_lazy().                                       *)
(*                                                                         *)
(* A factory is one call of lazy(func, *resultclasses): it owns one        *)
(* __proxy__ class (class attributes __dispatch, _delegate_bytes,          *)
(* _delegate_text, the installed __wrapper__ methods and the cast slots).  *)
(* func is a call-counting stand-in: every invocation increments `calls`   *)
(* and returns a value of shape funcShape that carries the number of the   *)
(* invocation that produced it.                                            *)
(***************************************************************************)
EXTENDS Integers, Sequences, FiniteSets, TLC

VARIABLES PY3, funcShape, funcCounter, factories, proxies, calls, last, threads

vars == <<PY3, funcShape, funcCounter, factories, proxies, calls, last, threads>>

(* ------------------------------ bounds --------------------------------- *)

MaxShapes == 2
MaxProxies == 2
MaxCalls == 2
MaxThreads == 2

(* ------------------- result shapes (the types in play) ------------------ *)

\* The classes that can be declared as resultclasses, in a fixed order.
ShapeOrder == <<"bytes", "text", "int">>

DeclShapes == {ShapeOrder[i] : i \in 1..Len(ShapeOrder)}

\* The classes func can return an instance of.
ResShapes == {"int", "bool", "text"}

\* The stand-ins for func: each returns instances of one class; the counter
\* returns the number of the invocation, the others a constant.
Funcs ==
    {[shape |-> "int", counter |-> TRUE]} \cup
    {[shape |-> s, counter |-> FALSE] : s \in ResShapes}

\* Single inheritance: bool derives from int; everything derives from object.
Base(s) == IF s = "bool" THEN "int" ELSE "object"

\* type.mro(): most specific first, object last.
RECURSIVE Mro(_)
Mro(s) == IF s = "object" THEN <<"object">> ELSE <<s>> \o Mro(Base(s))

RECURSIVE Reversed(_)
Reversed(q) == IF q = <<>> THEN <<>> ELSE Reversed(Tail(q)) \o <<Head(q)>>

\* type_.__dict__: the names each class defines itself.
TypeDict(t) ==
    CASE t = "object" -> {"__hash__", "__str__"}
      [] t = "int"    -> {"bit_length", "__and__", "__mod__", "__hash__"}
      [] t = "bool"   -> {"__and__"}
      [] t = "text"   -> {"upper", "encode", "__mod__", "__hash__", "__eq__", "__lt__"}
      [] t = "bytes"  -> {"upper", "decode", "__hash__"}

\* The names hasattr(cls, k) already finds on a fresh __proxy__ class: the
\* methods of its body, those total_ordering adds, and those of object.
ProxyClassAttrs ==
    {"__init__", "__prepare_class__", "__promise__", "__ne__", "__eq__",
     "__lt__", "__le__", "__gt__", "__ge__", "__hash__", "__mod__",
     "__deepcopy__", "__str__"}

(* ------------------------------ values --------------------------------- *)

None == <<>>
Some(x) == <<x>>

EmptyMap == [k \in {} |-> <<>>]

\* A raw (non-Promise) argument and a Promise argument (proxy id).
Raw(n) == [promise |-> FALSE, v |-> n]
Prom(p) == [promise |-> TRUE, v |-> p]

isinstance_Promise(arg) == arg.promise

InSeq(x, q) == \E i \in 1..Len(q) : q[i] = x

\* A raw argument n >= 1 stands for the int n; the raw argument 0 stands for
\* a value equal to the one a constant func returns.
RawValue(n) ==
    IF n = 0 THEN [shape |-> funcShape, val |-> 0, seq |-> 0]
    ELSE [shape |-> "int", val |-> n, seq |-> 0]

(* --------------------- the __proxy__ class of a factory ----------------- *)

\* The class right after lazy() has executed the class body: __dispatch is
\* None, no wrapper installed, _delegate_* not yet set, no cast slot set.
NewClass(resultclasses) ==
    [rc             |-> resultclasses,
     dispatch       |-> None,
     attrs          |-> {},
     delegate_bytes |-> None,
     delegate_text  |-> None,
     slots          |-> EmptyMap]

Put(m, k, v) == [x \in (DOMAIN m) \cup {k} |-> IF x = k THEN v ELSE m[x]]

\* hasattr, as if the skip of existing names were missing.
hasattr_never(cls, k) == FALSE

\* hasattr(cls, k): defined by the class body / its bases, or set earlier.
hasattr(cls, k) == k \in ProxyClassAttrs \/ k \in cls.attrs

\* __promise__(klass, funcname, method): registers method in the dispatch
\* table; the wrapper it returns depends on funcname only.
promise(d, klass, funcname, method) ==
    LET d1 == IF klass \notin DOMAIN d THEN Put(d, klass, EmptyMap) ELSE d
    IN  [d1 EXCEPT ![klass] = Put(@, funcname, method)]

\* prepare_order, with the reversed() forgotten: most specific first.
prepare_order_forward(resultclass) == Mro(resultclass)

\* The order in which __prepare_class__ visits the ancestors of a resultclass.
prepare_order(resultclass) == Reversed(Mro(resultclass))

\* for (k, v) in type_.__dict__.items(): ... ; v is named <<type_, k>>.
RECURSIVE prepare_items(_, _, _, _)
prepare_items(cls, resultclass, type_, keys) ==
    IF keys = {} THEN cls
    ELSE LET k  == CHOOSE x \in keys : TRUE
             c1 == [cls EXCEPT !.dispatch =
                       Some(promise(cls.dispatch[1], resultclass, k, <<type_, k>>))]
             c2 == IF hasattr(c1, k) THEN c1
                   ELSE [c1 EXCEPT !.attrs = @ \cup {k}]
         IN  prepare_items(c2, resultclass, type_, keys \ {k})

\* for type_ in reversed(resultclass.mro()): ...
RECURSIVE prepare_types(_, _, _)
prepare_types(cls, resultclass, types) ==
    IF types = <<>> THEN cls
    ELSE prepare_types(
             prepare_items(cls, resultclass, Head(types), TypeDict(Head(types))),
             resultclass, Tail(types))

\* for resultclass in resultclasses: cls.__dispatch[resultclass] = {}; ...
RECURSIVE prepare_resultclasses(_, _)
prepare_resultclasses(cls, rcs) ==
    IF rcs = <<>> THEN cls
    ELSE LET c1 == [cls EXCEPT !.dispatch = Some(Put(cls.dispatch[1], Head(rcs), EmptyMap))]
         IN  prepare_resultclasses(
                 prepare_types(c1, Head(rcs), prepare_order(Head(rcs))), Tail(rcs))

\* The cast slots set at the end of __prepare_class__.
prepare_slots(cls) ==
    IF cls.delegate_text = Some(TRUE)
    THEN [cls EXCEPT !.slots = Put(@, IF PY3 THEN "__str__" ELSE "__unicode__", "text_cast")]
    ELSE IF cls.delegate_bytes = Some(TRUE)
    THEN [cls EXCEPT !.slots = Put(@, IF PY3 THEN "__bytes__" ELSE "__str__", "bytes_cast")]
    ELSE cls

\* cls._delegate_bytes = bytes in resultclasses; cls._delegate_text = ...
prepare_flags(cls) ==
    [cls EXCEPT !.delegate_bytes = Some(InSeq("bytes", cls.rc)),
                !.delegate_text  = Some(InSeq("text", cls.rc))]

\* assert not (cls._delegate_bytes and cls._delegate_text)
assert_ok(cls) == ~(cls.delegate_bytes[1] /\ cls.delegate_text[1])

\* The assert and what follows it: ok = FALSE is the AssertionError.
prepare_finish(cls) ==
    [cls |-> IF assert_ok(cls) THEN prepare_slots(cls) ELSE cls,
     ok  |-> assert_ok(cls)]

\* __prepare_class__: the class after the call, and whether the assert
\* passed (the AssertionError is raised after everything above it ran).
prepare_class(cls) ==
    prepare_finish(
        prepare_flags(
            prepare_resultclasses([cls EXCEPT !.dispatch = Some(EmptyMap)], cls.rc)))

(* --------------------------- observations ------------------------------ *)

\* What the last call did: kind is "Factory", "Proxy", "Value" (a returned
\* value) or the exception raised; recv is the value the operation acted on.
Out(kind, ret, impl, recv, proxy) ==
    [kind |-> kind, ret |-> ret, impl |-> impl, recv |-> recv, proxy |-> proxy]

NoOut == Out("none", FALSE, <<>>, <<>>, 0)

Obs(op, fac, proxy, name, other, out, memo, args, kw, rc) ==
    [op |-> op, fac |-> fac, proxy |-> proxy, name |-> name, other |-> other,
     before |-> calls, out |-> out, memo |-> memo, args |-> args, kw |-> kw,
     rc |-> rc]

(* ------------------------- inputs of the calls -------------------------- *)

\* The resultclasses a factory can be declared with: up to MaxShapes
\* distinct classes, in the order of ShapeOrder.
Declarations ==
    {SelectSeq(ShapeOrder, LAMBDA s : s \in S) :
        S \in {T \in SUBSET DeclShapes : Cardinality(T) <= MaxShapes}}

\* The resultclasses allow_lazy's wrapper is declared with: int, as in
\* functional_utils.py, or a declaration holding both bytes and text.
WrapperDeclarations ==
    {<<"int">>} \cup {d \in Declarations : InSeq("bytes", d) /\ InSeq("text", d)}

\* The (args, kw) pairs of a call with raw arguments only.
RawCalls == {<< <<Raw(1)>>, [k \in {"key"} |-> Raw(2)] >>}

\* The (args, kw) pairs of a call that passes an existing proxy (the one
\* built last), either positionally or as a keyword-argument value.
PromiseCalls(prox) ==
    UNION {{<< <<Prom(p)>>, EmptyMap >>,
            << <<Raw(1)>>, [k \in {"key"} |-> Prom(p)] >>} : p \in {Len(prox)} \ {0}}

(* --------------------------- construction ------------------------------ *)

\* __proxy__.__init__(self, args, kw): stores the arguments; prepares the
\* class when its __dispatch is still None.
init_self(r, args, kw) ==
    [cls |-> r.cls, ok |-> r.ok, self |-> [args |-> args, kw |-> kw]]

proxy_init(cls, args, kw) ==
    IF cls.dispatch = None
    THEN init_self(prepare_class(cls), args, kw)
    ELSE init_self([cls |-> cls, ok |-> TRUE], args, kw)

\* What the caller of __proxy__(args, kw) gets: the proxy exists for it only
\* if __init__ returned.
constructed(facs, prox, f, r) ==
    IF r.ok
    THEN [factories |-> [facs EXCEPT ![f] = r.cls],
          proxies   |-> Append(prox, [factory |-> f, args |-> r.self.args,
                                      kw |-> r.self.kw]),
          out       |-> Out("Proxy", FALSE, <<>>, <<>>, Len(prox) + 1)]
    ELSE [factories |-> [facs EXCEPT ![f] = r.cls],
          proxies   |-> prox,
          out       |-> Out("AssertionError", FALSE, <<>>, <<>>, 0)]

\* The constructor lazy() returns: __wrapper__(*args, **kw) = __proxy__(args, kw)
\* on factory f.
proxy_constructor(facs, prox, f, args, kw) ==
    constructed(facs, prox, f, proxy_init(facs[f], args, kw))

\* lazy(func, *resultclasses): defines the class and returns the constructor.
lazy(facs, resultclasses) == Append(facs, NewClass(resultclasses))

(* ----------------------------- evaluation ------------------------------ *)

\* The value the n-th invocation of func returns.
Result(n) == [shape |-> funcShape, val |-> IF funcCounter THEN n ELSE 0, seq |-> n]

\* func(*self.__args, **self.__kw) with c invocations made so far.
func_call(c) == [ok |-> TRUE, val |-> Result(c + 1), calls |-> c + 1]

\* bytes(x): str(x) on Python 2; on Python 3 a text argument needs an
\* encoding (TypeError).
bytes_of(e) ==
    IF PY3 /\ e.val.shape = "text" THEN [e EXCEPT !.ok = FALSE]
    ELSE [e EXCEPT !.val.shape = "bytes"]

\* __text_cast
text_cast(c) == func_call(c)

\* __bytes_cast
bytes_cast(c) == bytes_of(func_call(c))

\* __cast
cast(cls, c) ==
    IF cls.delegate_bytes = Some(TRUE) THEN bytes_cast(c)
    ELSE IF cls.delegate_text = Some(TRUE) THEN text_cast(c)
    ELSE func_call(c)

\* What a call returns to its caller: the outcome and the invocation count.
Ret(out, c) == [out |-> out, calls |-> c]

Raise(kind, c) == Ret(Out(kind, FALSE, <<>>, <<>>, 0), c)

\* The native operators on raw values.
Kind(shape) ==
    CASE shape \in {"int", "bool"} -> "number"
      [] shape = "text"            -> "text"
      [] shape = "bytes"           -> IF PY3 THEN "bytes" ELSE "text"

NativeEq(a, b) == Kind(a.shape) = Kind(b.shape) /\ a.val = b.val

\* a < b: values of one kind compare by value; across kinds Python 3 raises
\* TypeError and Python 2 orders numbers before strings.
NativeLtOk(a, b) == ~PY3 \/ Kind(a.shape) = Kind(b.shape)
NativeLt(a, b) ==
    IF Kind(a.shape) = Kind(b.shape) THEN a.val < b.val
    ELSE Kind(a.shape) = "number"

\* The dispatching __wrapper__ that __promise__ builds for funcname.
RECURSIVE wrapper_walk(_, _, _, _)
wrapper_walk(cls, funcname, res, types) ==
    IF types = <<>> THEN Out("LazyTypeError", FALSE, <<>>, <<>>, 0)
    ELSE IF Head(types) \in DOMAIN cls.dispatch[1]
    THEN IF funcname \in DOMAIN cls.dispatch[1][Head(types)]
         THEN Out("Value", FALSE, cls.dispatch[1][Head(types)][funcname], <<res>>, 0)
         ELSE Out("KeyError", FALSE, <<>>, <<>>, 0)
    ELSE wrapper_walk(cls, funcname, res, Tail(types))

walked(cls, funcname, e, types) ==
    Ret(wrapper_walk(cls, funcname, e.val, types), e.calls)

\* wrapper, looking up type(res) itself instead of walking its mro().
wrapper_exact_type(cls, funcname, c) ==
    walked(cls, funcname, func_call(c), <<funcShape>>)

\* res = func(...); for t in type(res).mro(): ...
wrapper(cls, funcname, c) ==
    walked(cls, funcname, func_call(c), Mro(funcShape))

\* operand, with a Promise operand left unevaluated.
operand_unevaluated(facs, prox, other, c) ==
    [ok |-> TRUE, val |-> RawValue(other.v), calls |-> c]

\* if isinstance(other, Promise): other = other.__cast()
operand(facs, prox, other, c) ==
    IF isinstance_Promise(other) THEN cast(facs[prox[other.v].factory], c)
    ELSE [ok |-> TRUE, val |-> RawValue(other.v), calls |-> c]

\* __eq__ / __ne__ / __lt__ of the class body.
proxy_eq(facs, prox, p, other, c) ==
    LET o == operand(facs, prox, other, c)
        s == cast(facs[prox[p].factory], o.calls)
    IN  IF ~o.ok THEN Raise("BuiltinTypeError", o.calls)
        ELSE IF ~s.ok THEN Raise("BuiltinTypeError", s.calls)
        ELSE Ret(Out("Value", NativeEq(s.val, o.val), <<>>, <<s.val>>, 0), s.calls)

proxy_ne(facs, prox, p, other, c) ==
    LET o == operand(facs, prox, other, c)
        s == cast(facs[prox[p].factory], o.calls)
    IN  IF ~o.ok THEN Raise("BuiltinTypeError", o.calls)
        ELSE IF ~s.ok THEN Raise("BuiltinTypeError", s.calls)
        ELSE Ret(Out("Value", ~NativeEq(s.val, o.val), <<>>, <<s.val>>, 0), s.calls)

proxy_lt(facs, prox, p, other, c) ==
    LET o == operand(facs, prox, other, c)
        s == cast(facs[prox[p].factory], o.calls)
    IN  IF ~o.ok THEN Raise("BuiltinTypeError", o.calls)
        ELSE IF ~s.ok THEN Raise("BuiltinTypeError", s.calls)
        ELSE IF ~NativeLtOk(s.val, o.val) THEN Raise("BuiltinTypeError", s.calls)
        ELSE Ret(Out("Value", NativeLt(s.val, o.val), <<>>, <<s.val>>, 0), s.calls)

\* __hash__
proxy_hash(facs, prox, p, c) ==
    LET s == cast(facs[prox[p].factory], c)
    IN  IF ~s.ok THEN Raise("BuiltinTypeError", s.calls)
        ELSE Ret(Out("Value", FALSE, <<>>, <<s.val>>, 0), s.calls)

\* str(self) / unicode(self) / bytes(self): the cast slot __prepare_class__
\* installed under that name, or object's default (a repr of the proxy, no
\* evaluation) when none was. A text conversion must return text.
TextOk(v) == v.shape = "text" \/ (~PY3 /\ v.shape = "bytes")

convert(cls, slot, c) ==
    IF slot \notin DOMAIN cls.slots
    THEN Ret(Out("Value", FALSE, <<>>, <<>>, 0), c)
    ELSE LET s == IF cls.slots[slot] = "text_cast" THEN text_cast(c) ELSE bytes_cast(c)
         IN  IF ~s.ok \/ (cls.slots[slot] = "text_cast" /\ ~TextOk(s.val))
             THEN Raise("BuiltinTypeError", s.calls)
             ELSE Ret(Out("Value", FALSE, <<>>, <<s.val>>, 0), s.calls)

\* __mod__
proxy_mod(facs, prox, p, c) ==
    LET cls == facs[prox[p].factory]
    IN  IF cls.delegate_bytes = Some(TRUE) /\ ~PY3
        THEN convert(cls, "__str__", c)
        ELSE IF cls.delegate_text = Some(TRUE)
        THEN convert(cls, IF PY3 THEN "__str__" ELSE "__unicode__", c)
        ELSE LET s == cast(cls, c)
             IN  IF ~s.ok THEN Raise("BuiltinTypeError", s.calls)
                 ELSE Ret(Out("Value", FALSE, <<>>, <<s.val>>, 0), s.calls)

\* The conversion designated for the declared shapes: unicode()/str() for
\* text, str()/bytes() for bytes; str() when neither was declared.
DesignatedSlot(cls) ==
    IF cls.delegate_text = Some(TRUE) /\ ~(cls.delegate_bytes = Some(TRUE))
    THEN (IF PY3 THEN "__str__" ELSE "__unicode__")
    ELSE IF cls.delegate_bytes = Some(TRUE) /\ ~(cls.delegate_text = Some(TRUE))
    THEN (IF PY3 THEN "__bytes__" ELSE "__str__")
    ELSE "__str__"

\* The method a name resolves to on the proxy class: a wrapper installed by
\* setattr(cls, k, meth) replaces the method of the class body.
call_method(facs, prox, p, name, other, c) ==
    LET cls == facs[prox[p].factory]
    IN  IF name \in cls.attrs THEN wrapper(cls, name, c)
        ELSE CASE name = "__eq__"   -> proxy_eq(facs, prox, p, other, c)
               [] name = "__ne__"   -> proxy_ne(facs, prox, p, other, c)
               [] name = "__lt__"   -> proxy_lt(facs, prox, p, other, c)
               [] name = "__hash__" -> proxy_hash(facs, prox, p, c)
               [] name = "__mod__"  -> proxy_mod(facs, prox, p, c)

Negate(r) == IF r.out.kind = "Value" THEN [r EXCEPT !.out.ret = ~@] ELSE r

\* The methods total_ordering derives from __lt__.
proxy_le(facs, prox, p, other, c) ==
    LET r == call_method(facs, prox, p, "__lt__", other, c)
    IN  IF r.out.kind # "Value" \/ r.out.ret THEN r
        ELSE call_method(facs, prox, p, "__eq__", other, r.calls)

proxy_gt(facs, prox, p, other, c) ==
    LET r == call_method(facs, prox, p, "__lt__", other, c)
    IN  IF r.out.kind # "Value" THEN r
        ELSE IF r.out.ret THEN Negate(r)
        ELSE IF PY3 THEN call_method(facs, prox, p, "__ne__", other, r.calls)
        ELSE Negate(call_method(facs, prox, p, "__eq__", other, r.calls))

proxy_ge(facs, prox, p, other, c) ==
    Negate(call_method(facs, prox, p, "__lt__", other, c))

\* deepcopy, building a second proxy with the same arguments.
deepcopy_copying(prox, p, memo) ==
    [proxies |-> Append(prox, prox[p]),
     memo |-> Put(memo, p, Len(prox) + 1),
     ret |-> Len(prox) + 1]

\* __deepcopy__(self, memo)
deepcopy(prox, p, memo) ==
    [proxies |-> prox, memo |-> Put(memo, p, p), ret |-> p]

\* any_promise, looking at the positional arguments only.
any_promise_args_only(args, kw) ==
    \E i \in 1..Len(args) : isinstance_Promise(args[i])

\* for arg in list(args) + list(six.itervalues(kwargs)):
\*     if isinstance(arg, Promise): break
any_promise(args, kw) ==
    \/ \E i \in 1..Len(args) : isinstance_Promise(args[i])
    \/ \E k \in DOMAIN kw : isinstance_Promise(kw[k])

\* What allow_lazy's wrapper returns for a call with a Promise argument: the
\* class built by lazy() stays reachable only through the proxy returned.
deferred(facs, c, r) ==
    [factories |-> IF r.out.kind = "Proxy" THEN r.factories ELSE facs,
     proxies |-> r.proxies, calls |-> c, out |-> r.out]

eager(facs, prox, e) ==
    [factories |-> facs, proxies |-> prox, calls |-> e.calls,
     out |-> Out("Value", FALSE, <<>>, <<e.val>>, 0)]

\* The wrapper allow_lazy(func, *resultclasses) returns.
allow_lazy(facs, prox, c, resultclasses, args, kw) ==
    IF ~any_promise(args, kw)
    THEN eager(facs, prox, func_call(c))
    ELSE deferred(facs, c,
             proxy_constructor(lazy(facs, resultclasses), prox, Len(facs) + 1, args, kw))

(* ------------------------------ actions -------------------------------- *)

\* The threads that call the constructor, and where each one is in
\* __proxy__.__init__ / __prepare_class__: todo holds the iterations of the
\* loops of __prepare_class__ it has still to run.
Threads == 1..MaxThreads

Idle == [pc |-> "idle", todo |-> <<>>]

Init ==
    /\ PY3 \in BOOLEAN
    /\ \E fn \in Funcs : funcShape = fn.shape /\ funcCounter = fn.counter
    /\ factories = <<>>
    /\ proxies = <<>>
    /\ calls = 0
    /\ last = Obs("init", 0, 0, "", "none", NoOut, EmptyMap, <<>>, EmptyMap, <<>>)
    /\ threads = [t \in Threads |-> Idle]

Fixed == UNCHANGED <<PY3, funcShape, funcCounter>>

\* A call made by the main thread: no other thread is inside a constructor.
Env == Fixed /\ UNCHANGED threads

\* F = lazy(func, *resultclasses)
Lazy ==
    /\ factories = <<>>
    /\ \E rc \in Declarations :
         /\ factories' = lazy(factories, rc)
         /\ last' = Obs("lazy", Len(factories) + 1, 0, "", "none",
                        Out("Factory", FALSE, <<>>, <<>>, 0), EmptyMap, <<>>, EmptyMap, rc)
    /\ UNCHANGED <<proxies, calls>>
    /\ Env

\* A construction invokes nothing: the call count stays.
Uncalled(r) ==
    [factories |-> r.factories, proxies |-> r.proxies, calls |-> calls, out |-> r.out]

\* A call that returned r: the classes, the proxies, the call count after it.
Built(op, fac, rc, other, a, r) ==
    /\ factories' = r.factories
    /\ proxies' = r.proxies
    /\ calls' = r.calls
    /\ last' = Obs(op, IF r.out.kind = "Proxy" THEN r.proxies[r.out.proxy].factory ELSE fac,
                   r.out.proxy, "", other, r.out, EmptyMap, a[1], a[2], rc)

\* p = F(*args, **kw)
Construct ==
    /\ Len(proxies) < MaxProxies
    /\ \E f \in 1..Len(factories), a \in RawCalls :
         Built("construct", f, factories[f].rc, "none", a,
               Uncalled(proxy_constructor(factories, proxies, f, a[1], a[2])))
    /\ Env

\* The other operand of a comparison: a raw value or an existing proxy (the
\* one built first or the one built last).
Others == {Raw(1)} \cup {Prom(q) : q \in {1, Len(proxies)} \cap 1..Len(proxies)}

OtherKind(other) == IF isinstance_Promise(other) THEN "promise" ELSE "raw"

\* A call that forces the value and changes nothing but the call count.
Forced(op, p, name, other, r) ==
    /\ calls' = r.calls
    /\ last' = Obs(op, proxies[p].factory, p, name, other, r.out, EmptyMap, <<>>, EmptyMap, <<>>)
    /\ UNCHANGED <<factories, proxies>>
    /\ Env

\* p.name(...) for a name the class got a dispatching wrapper for
Dispatch ==
    /\ calls < MaxCalls
    /\ \E p \in 1..Len(proxies) :
         \E name \in factories[proxies[p].factory].attrs :
            Forced("dispatch", p, name, "raw",
                   call_method(factories, proxies, p, name, Raw(1), calls))

\* p == other
Eq ==
    /\ calls < MaxCalls
    /\ \E p \in 1..Len(proxies), other \in Others :
         Forced("eq", p, "__eq__", OtherKind(other),
                call_method(factories, proxies, p, "__eq__", other, calls))

\* p != other
Ne ==
    /\ calls < MaxCalls
    /\ \E p \in 1..Len(proxies), other \in Others :
         Forced("ne", p, "__ne__", OtherKind(other),
                call_method(factories, proxies, p, "__ne__", other, calls))

\* p < other
Lt ==
    /\ calls < MaxCalls
    /\ \E p \in 1..Len(proxies), other \in Others :
         Forced("lt", p, "__lt__", OtherKind(other),
                call_method(factories, proxies, p, "__lt__", other, calls))

\* p <= other
Le ==
    /\ calls < MaxCalls
    /\ \E p \in 1..Len(proxies), other \in Others :
         Forced("le", p, "__le__", OtherKind(other),
                proxy_le(factories, proxies, p, other, calls))

\* p > other
Gt ==
    /\ calls < MaxCalls
    /\ \E p \in 1..Len(proxies), other \in Others :
         Forced("gt", p, "__gt__", OtherKind(other),
                proxy_gt(factories, proxies, p, other, calls))

\* p >= other
Ge ==
    /\ calls < MaxCalls
    /\ \E p \in 1..Len(proxies), other \in Others :
         Forced("ge", p, "__ge__", OtherKind(other),
                proxy_ge(factories, proxies, p, other, calls))

\* hash(p)
Hash ==
    /\ calls < MaxCalls
    /\ \E p \in 1..Len(proxies) :
         Forced("hash", p, "__hash__", "none",
                call_method(factories, proxies, p, "__hash__", Raw(1), calls))

\* p % rhs, rhs a raw value
Mod ==
    /\ calls < MaxCalls
    /\ \E p \in 1..Len(proxies) :
         Forced("mod", p, "__mod__", "raw",
                call_method(factories, proxies, p, "__mod__", Raw(1), calls))

\* the conversion designated for p's declared shapes, applied to p
Stringify ==
    /\ calls < MaxCalls
    /\ \E p \in 1..Len(proxies) :
         LET cls == factories[proxies[p].factory]
         IN  Forced("str", p, DesignatedSlot(cls), "none",
                    convert(cls, DesignatedSlot(cls), calls))

\* copy.deepcopy(p, memo)
Deepcopy ==
    /\ \E p \in 1..Len(proxies) :
         \E memo \in {EmptyMap, [x \in {1} |-> 1]} :
            LET r == deepcopy(proxies, p, memo)
            IN  /\ proxies' = r.proxies
                /\ last' = Obs("deepcopy", proxies[p].factory, p, "__deepcopy__", "none",
                               Out("Proxy", FALSE, <<>>, <<>>, r.ret), r.memo,
                               <<>>, EmptyMap, <<>>)
    /\ UNCHANGED <<factories, calls>>
    /\ Env

\* allow_lazy(func, *resultclasses)(*args, **kw)
AllowLazy ==
    /\ \E rc \in WrapperDeclarations, a \in RawCalls \cup PromiseCalls(proxies) :
         /\ IF any_promise(a[1], a[2])
            THEN Len(proxies) < MaxProxies
            ELSE calls < MaxCalls
         /\ Built("allow_lazy", 0, rc, IF any_promise(a[1], a[2]) THEN "promise" ELSE "raw", a,
                  allow_lazy(factories, proxies, calls, rc, a[1], a[2]))
    /\ Env

Next ==
    \/ Lazy
    \/ Construct
    \/ Dispatch
    \/ Eq
    \/ Ne
    \/ Lt
    \/ Le
    \/ Gt
    \/ Ge
    \/ Hash
    \/ Mod
    \/ Stringify
    \/ Deepcopy
    \/ AllowLazy

Spec == Init /\ [][Next]_vars

(* ------------- the constructor called from several threads -------------- *)

\* The iterations of `for (k, v) in type_.__dict__.items()`, in the order
\* prepare_items runs them.
RECURSIVE key_items(_, _, _)
key_items(resultclass, type_, keys) ==
    IF keys = {} THEN <<>>
    ELSE LET k == CHOOSE x \in keys : TRUE
         IN  <<[open |-> FALSE, rc |-> resultclass, type |-> type_, k |-> k]>>
             \o key_items(resultclass, type_, keys \ {k})

\* The iterations of `for type_ in reversed(resultclass.mro())`.
RECURSIVE type_items(_, _)
type_items(resultclass, types) ==
    IF types = <<>> THEN <<>>
    ELSE key_items(resultclass, Head(types), TypeDict(Head(types)))
         \o type_items(resultclass, Tail(types))

\* The iterations of `for resultclass in resultclasses`: the assignment
\* cls.__dispatch[resultclass] = {} first, then the inner loops.
RECURSIVE class_items(_)
class_items(rcs) ==
    IF rcs = <<>> THEN <<>>
    ELSE <<[open |-> TRUE, rc |-> Head(rcs), type |-> "", k |-> ""]>>
         \o type_items(Head(rcs), prepare_order(Head(rcs)))
         \o class_items(Tail(rcs))

\* One iteration, on the class as it is when the thread runs it.
run_item(cls, item) ==
    IF item.open
    THEN [cls EXCEPT !.dispatch = Some(Put(cls.dispatch[1], item.rc, EmptyMap))]
    ELSE prepare_items(cls, item.rc, item.type, {item.k})

At(t, pc) == threads[t].pc = pc

Goto(t, pc, todo) == threads' = [threads EXCEPT ![t] = [pc |-> pc, todo |-> todo]]

\* Thread t calls F(*args, **kw): __init__ stores the arguments.
T_Call ==
    \E t \in Threads :
        /\ At(t, "idle")
        /\ factories # <<>>
        /\ Goto(t, "check", <<>>)
        /\ UNCHANGED <<factories, proxies, calls, last>>
        /\ Fixed

\* if self.__dispatch is None:
T_Check ==
    \E t \in Threads :
        /\ At(t, "check")
        /\ Goto(t, IF factories[1].dispatch = None THEN "reset" ELSE "return", <<>>)
        /\ UNCHANGED <<factories, proxies, calls, last>>
        /\ Fixed

\* cls.__dispatch = {}
T_Reset ==
    \E t \in Threads :
        /\ At(t, "reset")
        /\ factories' = [factories EXCEPT ![1].dispatch = Some(EmptyMap)]
        /\ Goto(t, "loop", class_items(factories[1].rc))
        /\ UNCHANGED <<proxies, calls, last>>
        /\ Fixed

\* one iteration of the loops of __prepare_class__
T_Loop ==
    \E t \in Threads :
        /\ At(t, "loop")
        /\ threads[t].todo # <<>>
        /\ factories' = [factories EXCEPT ![1] = run_item(@, Head(threads[t].todo))]
        /\ Goto(t, "loop", Tail(threads[t].todo))
        /\ UNCHANGED <<proxies, calls, last>>
        /\ Fixed

\* What the end of __prepare_class__ leaves: the thread goes on to return
\* from __init__, or the assert raised.
T_Finished(t, r) ==
    /\ factories' = [factories EXCEPT ![1] = r.cls]
    /\ Goto(t, IF r.ok THEN "return" ELSE "raised", <<>>)
    /\ last' = IF r.ok THEN last
               ELSE Obs("construct", 1, 0, "", "none",
                        Out("AssertionError", FALSE, <<>>, <<>>, 0), EmptyMap,
                        <<>>, EmptyMap, factories[1].rc)

\* the flags, the assert and the cast slots, after the loops
T_Finish ==
    \E t \in Threads :
        /\ At(t, "loop")
        /\ threads[t].todo = <<>>
        /\ T_Finished(t, prepare_finish(prepare_flags(factories[1])))
        /\ UNCHANGED <<proxies, calls>>
        /\ Fixed

\* __init__ returns: the caller holds the proxy.
T_Return ==
    \E t \in Threads, a \in RawCalls :
        /\ At(t, "return")
        /\ proxies' = Append(proxies, [factory |-> 1, args |-> a[1], kw |-> a[2]])
        /\ Goto(t, "done", <<>>)
        /\ last' = Obs("construct", 1, Len(proxies) + 1, "", "none",
                       Out("Proxy", FALSE, <<>>, <<>>, Len(proxies) + 1), EmptyMap,
                       a[1], a[2], factories[1].rc)
        /\ UNCHANGED <<factories, calls>>
        /\ Fixed

NextThreads ==
    \/ Lazy
    \/ T_Call
    \/ T_Check
    \/ T_Reset
    \/ T_Loop
    \/ T_Finish
    \/ T_Return

SpecThreads == Init /\ [][NextThreads]_vars

(* ------------------------- vocabulary of the claims --------------------- *)

\* Invocations of func made by the last call.
Invocations == calls - last.before

\* The class the last call's proxy belongs to.
LastClass == factories[last.fac]

Conflicting(rc) == InSeq("bytes", rc) /\ InSeq("text", rc)

Comparisons == {"eq", "ne", "lt", "le", "gt", "ge"}

\* The operations of the proxy class body and of total_ordering.
OwnOps == Comparisons \cup {"hash", "mod"}

\* The set of classes that define name k along the ancestor chain of s.
Definers(s, k) == {i \in 1..Len(Mro(s)) : k \in TypeDict(Mro(s)[i])}

\* The most-derived definition of k along the ancestor chain of s.
MostDerived(s, k) ==
    << Mro(s)[CHOOSE i \in Definers(s, k) : \A j \in Definers(s, k) : i <= j], k >>

\* Every name defined by s or one of its ancestors.
AllNames(s) == UNION {TypeDict(Mro(s)[i]) : i \in 1..Len(Mro(s))}

\* No class of the result's ancestor chain is a key of the dispatch table.
Undeclared(cls, shape) ==
    \A i \in 1..Len(Mro(shape)) : Mro(shape)[i] \notin DOMAIN cls.dispatch[1]

\* The dispatch table of a prepared class.
TableOf(cls) == cls.dispatch[1]

(* -------------------------------- C1 ----------------------------------- *)

\* C1 (as stated): every call F(a) of a constructor leaves the invocation
\* count of func unchanged (0 while no proxy operation was made) and returns
\* a Proxy that holds exactly the positional and keyword arguments passed.
C1_Original ==
    last.op = "construct" =>
        /\ Invocations = 0
        /\ last.out.kind = "Proxy"
        /\ last.out.proxy \in 1..Len(proxies)
        /\ proxies[last.out.proxy].args = last.args
        /\ proxies[last.out.proxy].kw = last.kw

(* -------------------------------- C2 ----------------------------------- *)

Forcing ==
    \/ last.op \in OwnOps \cup {"dispatch"}
    \/ last.op = "str" /\ (InSeq("text", LastClass.rc) \/ InSeq("bytes", LastClass.rc))

\* C3 (as stated): every value-forcing operation call on a Proxy invokes
\* func again and acts on a value produced by an invocation made during that
\* same call, never on a value of an earlier call.
C3_Original ==
    Forcing =>
        /\ Invocations >= 1
        /\ \A i \in 1..Len(last.out.recv) : last.out.recv[i].seq > last.before

\* The same for the proxies of every class that was not declared with both
\* bytes and text (the rest of C3, outside the case C7 leaves open).
C3_FreshUnlessConflicting ==
    (Forcing /\ ~Conflicting(LastClass.rc)) =>
        /\ Invocations >= 1
        /\ \A i \in 1..Len(last.out.recv) : last.out.recv[i].seq > last.before

(* -------------------------------- C4 ----------------------------------- *)

\* C4: a dispatched operation raises the type-contract violation if and only
\* if no class of the result's ancestor chain is a key of the dispatch table;
\* it does so after func was invoked (once), and no construction (lazy(),
\* the constructor, allow_lazy's wrapper) ever raises it.
C4_TypeErrorIffUndeclared ==
    /\ last.op = "dispatch" =>
          /\ Invocations = 1
          /\ last.out.kind = "LazyTypeError" <=> Undeclared(LastClass, funcShape)
    /\ last.op \in {"lazy", "construct", "allow_lazy"} =>
          last.out.kind # "LazyTypeError"

\* A dispatched call on a proxy whose result shape is undeclared raised the
\* violation after one invocation of func.
C4_Witness ==
    /\ last.op = "dispatch"
    /\ last.out.kind = "LazyTypeError"
    /\ Undeclared(LastClass, funcShape)
    /\ Invocations = 1

(* -------------------------------- C5 ----------------------------------- *)

\* C5 (as stated): equality, inequality, ordering, hashing and formatting
\* resolve through the dispatch table, so each raises the type-contract
\* violation when func returns a value of an undeclared shape.
C5_Original ==
    (last.op \in OwnOps /\ Undeclared(LastClass, funcShape)) =>
        last.out.kind = "LazyTypeError"

\* C5 (amended): __prepare_class__ never replaces a method the proxy class
\* already has, so ==, !=, <, <=, >, >=, hash() and % (raw right operand)
\* stay the methods of the class body: none uses a dispatch table entry and
\* none raises the type-contract violation, whatever func returns; only a
\* dispatched operation raises it.
C5_OwnOpsBypassDispatch ==
    /\ \A f \in 1..Len(factories) : factories[f].attrs \cap ProxyClassAttrs = {}
    /\ last.op \in OwnOps =>
          /\ last.out.kind \in {"Value", "BuiltinTypeError"}
          /\ last.out.impl = <<>>
    /\ last.out.kind = "LazyTypeError" => last.op = "dispatch"

\* An equality on a proxy whose result shape is undeclared returned a value.
C5_Witness ==
    /\ last.op = "eq"
    /\ Undeclared(LastClass, funcShape)
    /\ last.out.kind = "Value"
    /\ "text" \in DOMAIN TableOf(LastClass)
    /\ "__eq__" \in DOMAIN TableOf(LastClass)["text"]

(* -------------------------------- C6 ----------------------------------- *)

\* C6 (as stated): lazy(func, bytes, text) itself raises the configuration
\* error; no constructor is returned.
C6_Original ==
    (last.op = "lazy" /\ Conflicting(last.rc)) =>
        last.out.kind = "AssertionError"

(* -------------------------------- C7 ----------------------------------- *)

\* C7 (as stated): every call of the constructor of a factory declared with
\* both bytes and text raises the configuration error, and no Proxy of such
\* a factory ever exists.
C7_Original ==
    /\ (last.op = "construct" /\ Conflicting(last.rc)) =>
          last.out.kind = "AssertionError"
    /\ \A p \in 1..Len(proxies) : ~Conflicting(factories[proxies[p].factory].rc)

(* -------------------------------- C8 ----------------------------------- *)

\* The content of every prepared table.
C8_TableInv ==
    \A f \in 1..Len(factories) :
        factories[f].dispatch # None =>
            /\ DOMAIN TableOf(factories[f]) =
                   {factories[f].rc[i] : i \in 1..Len(factories[f].rc)}
            /\ \A S \in DOMAIN TableOf(factories[f]) :
                  /\ DOMAIN TableOf(factories[f])[S] = AllNames(S)
                  /\ \A k \in AllNames(S) :
                        TableOf(factories[f])[S][k] = MostDerived(S, k)

\* A prepared table stays as it is.
C8_TableFrozen ==
    \A f \in 1..Len(factories) :
        factories[f].dispatch # None =>
            /\ f <= Len(factories')
            /\ factories'[f].dispatch = factories[f].dispatch

HoldsArgs(p) == proxies[p].args = last.args /\ proxies[p].kw = last.kw

\* The values passed to the last call, positional and keyword.
PassedValues ==
    {last.args[i] : i \in 1..Len(last.args)} \cup {last.kw[k] : k \in DOMAIN last.kw}

NoPromisePassed == \A a \in PassedValues : ~a.promise

\* C9 (as stated): a call of allow_lazy's wrapper with no Promise argument
\* invokes func once and returns its result; a call with a Promise among
\* its positional or keyword arguments does not invoke func and returns a
\* new Proxy holding the arguments.
C9_Original ==
    last.op = "allow_lazy" =>
        IF NoPromisePassed
        THEN /\ Invocations = 1
             /\ last.out.kind = "Value"
             /\ last.out.recv = <<Result(calls)>>
        ELSE /\ Invocations = 0
             /\ last.out.kind = "Proxy"
             /\ last.out.proxy = Len(proxies)
             /\ HoldsArgs(last.out.proxy)

\* What C9 leaves after a call of the wrapper.
C9_State ==
    last.op = "allow_lazy" =>
        IF NoPromisePassed
        THEN /\ Invocations = 1
             /\ last.out.kind = "Value"
             /\ last.out.recv = <<Result(calls)>>
        ELSE /\ Invocations = 0
             /\ IF Conflicting(last.rc)
                THEN last.out.kind = "AssertionError"
                ELSE /\ last.out.kind = "Proxy"
                     /\ last.out.proxy = Len(proxies)
                     /\ HoldsArgs(last.out.proxy)
                     /\ LastClass.rc = last.rc

\* What a call of the wrapper changes.
C9_Step ==
    last'.op = "allow_lazy" =>
        IF last'.out.kind = "Proxy"
        THEN /\ Len(proxies') = Len(proxies) + 1
             /\ SubSeq(proxies', 1, Len(proxies)) = proxies
             /\ proxies'[Len(proxies')].factory = Len(factories) + 1
        ELSE proxies' = proxies /\ factories' = factories

\* C9 (amended): a call of allow_lazy's wrapper with no Promise argument
\* invokes func once and returns its result; a call with a Promise among its
\* positional or keyword arguments does not invoke func and returns a new
\* Proxy holding the arguments, except that with resultclasses holding both
\* bytes and text it raises the configuration error (func not invoked, no
\* Proxy returned, nothing created).
C9_ConditionalDeferral == []C9_State /\ [][C9_Step]_vars

\* A call whose only Promise is a keyword-argument value returned a Proxy.
C9_Witness ==
    /\ last.op = "allow_lazy"
    /\ last.out.kind = "Proxy"
    /\ \A i \in 1..Len(last.args) : ~last.args[i].promise
    /\ ~NoPromisePassed
    /\ ~Conflicting(last.rc)

(* -------------------------------- C10 ---------------------------------- *)

\* What a deep copy returns and records.
C10_State ==
    last.op = "deepcopy" =>
        /\ last.out.kind = "Proxy"
        /\ last.out.proxy = last.proxy
        /\ last.proxy \in DOMAIN last.memo
        /\ last.memo[last.proxy] = last.proxy
        /\ Invocations = 0

\* What a deep copy leaves alone.
C10_Step ==
    last'.op = "deepcopy" =>
        /\ proxies' = proxies
        /\ factories' = factories
        /\ calls' = calls

\* C10: deep-copying a Proxy returns that very Proxy, records it in the memo
\* under its own identity, invokes func not at all and leaves every proxy's
\* captured arguments as they were.
C10_DeepcopyIsIdentity == []C10_State /\ [][C10_Step]_vars

\* A deep copy of the second proxy with a memo that already held the first.
C10_Witness ==
    /\ last.op = "deepcopy"
    /\ last.proxy = 2
    /\ DOMAIN last.memo = {1, 2}
    /\ last.out.proxy = 2

(* -------------------------------- C11 ---------------------------------- *)

\* The class was declared without bytes.
bytes_free(cls) == ~InSeq("bytes", cls.rc)

\* The outcome (returned value or exception kind) of a comparison made in
\* the current state.
Compare(name, p, other) ==
    LET o == call_method(factories, proxies, p, name, other, calls).out
    IN  <<o.kind, o.ret>>

Yes == <<"Value", TRUE>>
No == <<"Value", FALSE>>

\* The class of proxy p.
ClassOf(p) == factories[proxies[p].factory]

\* func keeps to the declaration of p's class: its result's shape is a
\* declared one or derives from one, and the declaration is not the
\* conflicting one of C6/C7.
Honoured(p) ==
    /\ ~Undeclared(ClassOf(p), funcShape)
    /\ ~Conflicting(ClassOf(p).rc)

\* C11 (as stated, for computations that keep to their declarations): with
\* func deterministic (a constant), for any two proxies p1 == p2 holds (in
\* both orders), p1 != p2 is false, p1 == v holds for the raw value v func
\* yields, and p1 < p2 answers as p1 < v does.
C11_Original ==
    ~funcCounter =>
        \A p1, p2 \in 1..Len(proxies) :
            (Honoured(p1) /\ Honoured(p2)) =>
                /\ Compare("__eq__", p1, Prom(p2)) = Yes
                /\ Compare("__ne__", p1, Prom(p2)) = No
                /\ Compare("__eq__", p1, Raw(0)) = Yes
                /\ Compare("__lt__", p1, Prom(p2)) = Compare("__lt__", p1, Raw(0))

\* The same for proxies of classes declared without bytes, whatever func
\* returns: there __cast is func's own result.
C11_ConsistentWithoutBytes ==
    ~funcCounter =>
        \A p1, p2 \in 1..Len(proxies) :
            (bytes_free(ClassOf(p1)) /\ bytes_free(ClassOf(p2))) =>
                /\ Compare("__eq__", p1, Prom(p2)) = Yes
                /\ Compare("__ne__", p1, Prom(p2)) = No
                /\ Compare("__eq__", p1, Raw(0)) = Yes
                /\ Compare("__lt__", p1, Prom(p2)) = Compare("__lt__", p1, Raw(0))

(* -------------------------------- C12 ---------------------------------- *)

\* The first class of the result's ancestor chain, most specific first, that
\* is a key of the dispatch table.
FirstKey(cls, shape) ==
    Mro(shape)[CHOOSE i \in 1..Len(Mro(shape)) :
                  /\ Mro(shape)[i] \in DOMAIN TableOf(cls)
                  /\ \A j \in 1..(i - 1) : Mro(shape)[j] \notin DOMAIN TableOf(cls)]

\* C12 (as stated, on classes without the conflicting declaration): a call
\* of an installed wrapper whose result has a table key in its ancestor
\* chain finds table[t][op] at the first such level t and invokes it on the
\* result of the invocation of func made by that call.
C12_Original ==
    (/\ last.op = "dispatch"
     /\ ~Conflicting(LastClass.rc)
     /\ ~Undeclared(LastClass, funcShape)) =>
        /\ last.out.kind = "Value"
        /\ last.name \in DOMAIN TableOf(LastClass)[FirstKey(LastClass, funcShape)]
        /\ last.out.impl = TableOf(LastClass)[FirstKey(LastClass, funcShape)][last.name]
        /\ last.out.recv = <<Result(calls)>>

\* What holds instead: the lookup succeeds exactly when a class of the first
\* key's own ancestor chain defines the name, and raises KeyError otherwise.
C12_MissesForeignNames ==
    (last.op = "dispatch" /\ ~Undeclared(LastClass, funcShape)) =>
        IF last.name \in AllNames(FirstKey(LastClass, funcShape))
        THEN /\ last.out.kind = "Value"
             /\ last.out.impl = MostDerived(FirstKey(LastClass, funcShape), last.name)
             /\ last.out.recv = <<Result(calls)>>
        ELSE last.out.kind = "KeyError"

(* -------------------------------- C13 ---------------------------------- *)

\* C13 (as stated): the implementation a dispatched operation invokes is the
\* most-derived definition of the name along the ancestor chain of the
\* result's own class, also when that class is an undeclared descendant of
\* a declared one and overrides the name.
C13_Original ==
    (/\ last.op = "dispatch"
     /\ last.out.kind = "Value"
     /\ ~Conflicting(LastClass.rc)) =>
        /\ last.name \in AllNames(funcShape)
        /\ last.out.impl = MostDerived(funcShape, last.name)

\* The same for results whose own class is a declared one.
C13_CorrectForDeclaredClass ==
    (/\ last.op = "dispatch"
     /\ last.out.kind = "Value"
     /\ funcShape \in DOMAIN TableOf(LastClass)) =>
        /\ last.name \in AllNames(funcShape)
        /\ last.out.impl = MostDerived(funcShape, last.name)

(* -------------------------------- C14 ---------------------------------- *)

\* The class one uninterrupted run of __prepare_class__ leaves.
Prepared(rc) == prepare_class(NewClass(rc)).cls

\* The table is fully populated and every operation wrapper is installed.
Complete(cls) ==
    /\ cls.dispatch = Prepared(cls.rc).dispatch
    /\ cls.attrs = Prepared(cls.rc).attrs

\* C14 (as stated, for declarations without the bytes/text conflict): under
\* every interleaving of the threads that call the constructor of one
\* factory, once a Proxy was returned the factory's table is fully
\* populated and all its wrappers are installed, and stay so.
C14_Original ==
    (/\ proxies # <<>>
     /\ ~Conflicting(factories[1].rc)) =>
        Complete(factories[1])

\* The same when the construction is not raced: a single thread has called
\* the constructor.
C14_CompleteWhenUnraced ==
    (/\ proxies # <<>>
     /\ \E t \in Threads : \A u \in Threads \ {t} : threads[u] = Idle) =>
        factories[1] = Prepared(factories[1].rc)

====
